---- MODULE Spec2Model ----
(***************************************************************************)
(* Model of the will-i-suffocate Telegram bot (src/main.rs): the /wis      *)
(* command handler, the fetch of a WAQI reading, the derivation of the     *)
(* report for the dominant pollutant, the pollutant-to-AQI conversion and  *)
(* the rendering of the progress bar.                                      *)
(*                                                                         *)
(* Representation.  A concentration is a fixed-point number counted in     *)
(* steps of the pollutant's breakpoint table (tenths of a unit for pm25    *)
(* and co, whole units for the others).  A string that the code compares   *)
(* or trims is a sequence of characters; a rendered text is the record of  *)
(* its interpolated parts (city line, then date, emoji and bar per day).   *)
(***************************************************************************)
EXTENDS Integers, Sequences, FiniteSets

VARIABLES
    env_token,   \* whether AQI_TOKEN is set in the process environment
    pc,          \* position of the answer handler
    cmd,         \* the command being answered
    fetched,     \* result of get_city_pollution
    fetches,     \* number of requests started by this handler
    sent,        \* messages handed to bot.send_message by this handler
    ret,         \* what answer returned
    log,         \* lines printed with println!
    pollutant,   \* argument of a direct call of calc_aqi_by_name
    value,       \* argument of a direct call of calc_aqi_by_name
    converted,   \* result of that call
    level_in,    \* argument of a direct call of air_quality_to_emoji
    aqi_in,      \* argument of a direct call of air_quality_to_emoji
    rendered     \* result of that call

vars == <<env_token, pc, cmd, fetched, fetches, sent, ret, log,
          pollutant, value, converted, level_in, aqi_in, rendered>>

handlerVars == <<env_token, pc, cmd, fetched, fetches, sent, ret, log>>
convertVars == <<pollutant, value, converted>>
renderVars == <<level_in, aqi_in, rendered>>

(***************************************************************************)
(* Bounds of the model.                                                    *)
(***************************************************************************)
MaxForecast == 3     \* longest forecast list of a reading
MaxAqi == 600        \* largest aqi handed directly to air_quality_to_emoji
Overshoot == 3       \* steps beyond a table's ends that are tried

(***************************************************************************)
(* Generic helpers.                                                        *)
(***************************************************************************)
Min(a, b) == IF a <= b THEN a ELSE b

SeqsUpTo(S, n) == UNION {[1..k -> S] : k \in 0..n}

RECURSIVE Repeat(_, _)
Repeat(c, n) == IF n <= 0 THEN <<>> ELSE <<c>> \o Repeat(c, n - 1)

(***************************************************************************)
(* AirQualityLevel and the AQI sub-range of each level.                    *)
(***************************************************************************)
Levels == <<"Good", "Moderate", "UnhealthySensitive", "Unhealthy",
            "VeryUnhealthy", "Hazardous">>

LevelSet == {Levels[i] : i \in 1..Len(Levels)}

\* mutant: the upper end of each sub-range belongs to the next level
LevelOfAqi_exclusive(aqi) ==
    IF aqi < 50 THEN "Good"
    ELSE IF aqi < 100 THEN "Moderate"
    ELSE IF aqi < 150 THEN "UnhealthySensitive"
    ELSE IF aqi < 200 THEN "Unhealthy"
    ELSE IF aqi < 300 THEN "VeryUnhealthy"
    ELSE "Hazardous"

LevelOfAqi(aqi) ==
    IF aqi <= 50 THEN "Good"
    ELSE IF aqi <= 100 THEN "Moderate"
    ELSE IF aqi <= 150 THEN "UnhealthySensitive"
    ELSE IF aqi <= 200 THEN "Unhealthy"
    ELSE IF aqi <= 300 THEN "VeryUnhealthy"
    ELSE "Hazardous"

(***************************************************************************)
(* Breakpoint tables of the aqi crate, in steps: <<Clow, Chigh, Ilow,      *)
(* Ihigh>>.                                                                *)
(***************************************************************************)
Pm25Table == << <<0, 120, 0, 50>>, <<121, 354, 51, 100>>,
                <<355, 554, 101, 150>>, <<555, 1504, 151, 200>>,
                <<1505, 2504, 201, 300>>, <<2505, 3504, 301, 400>>,
                <<3505, 5004, 401, 500>> >>

Pm10Table == << <<0, 54, 0, 50>>, <<55, 154, 51, 100>>,
                <<155, 254, 101, 150>>, <<255, 354, 151, 200>>,
                <<355, 424, 201, 300>>, <<425, 504, 301, 400>>,
                <<505, 604, 401, 500>> >>

Ozone8Table == << <<0, 54, 0, 50>>, <<55, 70, 51, 100>>,
                  <<71, 85, 101, 150>>, <<86, 105, 151, 200>>,
                  <<106, 200, 201, 300>> >>

No2Table == << <<0, 53, 0, 50>>, <<54, 100, 51, 100>>,
               <<101, 360, 101, 150>>, <<361, 649, 151, 200>>,
               <<650, 1249, 201, 300>>, <<1250, 1649, 301, 400>>,
               <<1650, 2049, 401, 500>> >>

So2Table == << <<0, 35, 0, 50>>, <<36, 75, 51, 100>>,
               <<76, 185, 101, 150>>, <<186, 304, 151, 200>> >>

CoTable == << <<0, 44, 0, 50>>, <<45, 94, 51, 100>>,
              <<95, 124, 101, 150>>, <<125, 154, 151, 200>>,
              <<155, 304, 201, 300>>, <<305, 404, 301, 400>>,
              <<405, 504, 401, 500>> >>

TableMax(table) == table[Len(table)][2]

(***************************************************************************)
(* Result<AirQuality, E>.                                                  *)
(***************************************************************************)
OkAqi(aqi, level) == [ok |-> TRUE, aqi |-> aqi, level |-> level, err |-> <<>>]

ErrAqi(e) == [ok |-> FALSE, aqi |-> 0, level |-> "Good", err |-> e]

(***************************************************************************)
(* The conversion of the aqi crate: the lowest row that holds the          *)
(* concentration, linear interpolation rounded half up, level from aqi.    *)
(***************************************************************************)
Interpolate(row, c) ==
    row[3] + ((2 * (row[4] - row[3]) * (c - row[1]) + (row[2] - row[1]))
              \div (2 * (row[2] - row[1])))

Convert(table, c) ==
    IF c < 0 \/ c > TableMax(table)
    THEN ErrAqi(<<"OutOfDomain">>)
    ELSE LET i == CHOOSE j \in 1..Len(table) :
                    /\ table[j][1] <= c /\ c <= table[j][2]
                    /\ \A k \in 1..(j - 1) : ~(table[k][1] <= c /\ c <= table[k][2])
             aqi == Interpolate(table[i], c)
         IN OkAqi(aqi, LevelOfAqi(aqi))

pm2_5(c) == Convert(Pm25Table, c)
pm10(c) == Convert(Pm10Table, c)
ozone8(c) == Convert(Ozone8Table, c)
no2(c) == Convert(No2Table, c)
so2_1(c) == Convert(So2Table, c)
co(c) == Convert(CoTable, c)

(***************************************************************************)
(* Pollutant identifiers as the feed may send them, and str::to_lowercase  *)
(* on them.                                                                *)
(***************************************************************************)
Supported == {"pm25", "pm10", "o3", "no2", "so2", "co"}

Identifiers == Supported \cup {"PM25", "O3", "xx", "h"}

to_lowercase(s) ==
    CASE s = "PM25" -> "pm25"
      [] s = "O3" -> "o3"
      [] OTHER -> s

(***************************************************************************)
(* fn calc_aqi_by_name(pollutant: &str, value: f64)                        *)
(***************************************************************************)
\* the match on the lowercased name
match_pollutant(name, v) ==
    CASE name = "pm25" -> pm2_5(v)
      [] name = "pm10" -> pm10(v)
      [] name = "o3" -> ozone8(v)
      [] name = "no2" -> no2(v)
      [] name = "so2" -> so2_1(v)
      [] name = "co" -> co(v)
      [] OTHER -> ErrAqi(<<"Unsupported or unknown pollutant: ", name>>)

\* mutant: an unknown name falls back to pm25
calc_aqi_by_name_fallback(p, v) ==
    IF to_lowercase(p) \in Supported
    THEN match_pollutant(to_lowercase(p), v)
    ELSE pm2_5(v)

\* mutant: the value is clamped into the table before it is converted
calc_aqi_by_name_clamped(p, v) ==
    IF to_lowercase(p) \in Supported
    THEN LET top == TableMax(CASE to_lowercase(p) = "pm25" -> Pm25Table
                               [] to_lowercase(p) = "pm10" -> Pm10Table
                               [] to_lowercase(p) = "o3" -> Ozone8Table
                               [] to_lowercase(p) = "no2" -> No2Table
                               [] to_lowercase(p) = "so2" -> So2Table
                               [] OTHER -> CoTable)
         IN match_pollutant(to_lowercase(p),
                            IF v < 0 THEN 0 ELSE IF v > top THEN top ELSE v)
    ELSE match_pollutant(to_lowercase(p), v)

calc_aqi_by_name(p, v) == match_pollutant(to_lowercase(p), v)

(***************************************************************************)
(* fn air_quality_to_emoji(level: AirQualityLevel, aqi: u32)               *)
(***************************************************************************)
progress_bar_size == 10

CeilDiv(a, b) == (a + b - 1) \div b

\* usize subtraction: an underflow aborts the computation
UsizeSubOk(a, b) == a >= b

EmojiOf(level) ==
    CASE level = "Good" -> "green"
      [] level = "Moderate" -> "yellow"
      [] level = "UnhealthySensitive" -> "orange"
      [] level = "Unhealthy" -> "red"
      [] level = "VeryUnhealthy" -> "purple"
      [] level = "Hazardous" -> "black"

\* mutant: the second min, against progress_bar_size, is missing
Progress_unclamped(aqi) == CeilDiv(Min(aqi, 500), 25)

Progress(aqi) == Min(CeilDiv(Min(aqi, 500), 25), progress_bar_size)

air_quality_to_emoji(level, aqi) ==
    LET progress == Progress(aqi) IN
    IF UsizeSubOk(progress_bar_size, progress)
    THEN [panic |-> FALSE, emoji |-> EmojiOf(level),
          bar |-> Repeat("full", progress)
                  \o Repeat("empty", progress_bar_size - progress)]
    ELSE [panic |-> TRUE, emoji |-> EmojiOf(level), bar |-> <<>>]

(***************************************************************************)
(* Strings that the code compares or trims.  Chars gives the character     *)
(* codes of a date label; a city is kept as its sequence of characters.    *)
(***************************************************************************)
DayLabels == {"06-0", "06-01", "06-1"}

Chars(s) ==
    CASE s = "06-0" -> <<48, 54, 45, 48>>
      [] s = "06-01" -> <<48, 54, 45, 48, 49>>
      [] s = "06-1" -> <<48, 54, 45, 49>>

\* a > b for str: byte-wise lexicographic order, a proper prefix is smaller
RECURSIVE SeqGt(_, _)
SeqGt(a, b) ==
    IF a = <<>> THEN FALSE
    ELSE IF b = <<>> THEN TRUE
    ELSE IF Head(a) # Head(b) THEN Head(a) > Head(b)
    ELSE SeqGt(Tail(a), Tail(b))

str_gt(a, b) == SeqGt(Chars(a), Chars(b))

RECURSIVE TrimStart(_)
TrimStart(s) ==
    IF s # <<>> /\ Head(s) = " " THEN TrimStart(Tail(s)) ELSE s

RECURSIVE TrimEnd(_)
TrimEnd(s) ==
    IF s # <<>> /\ s[Len(s)] = " " THEN TrimEnd(SubSeq(s, 1, Len(s) - 1)) ELSE s

trim(s) == TrimEnd(TrimStart(s))

(***************************************************************************)
(* PollutionData as deserialized from the feed.  time_s is time.s as its   *)
(* whitespace-separated tokens.                                            *)
(***************************************************************************)
CurrentValues == {0 - 1, 90, 700}

ForecastAverages == {9, 700}

DailyForecast == [day : DayLabels, avg : ForecastAverages]

TimeStrings == {<<>>, <<"06-0", "12:00:00">>, <<"06-01", "12:00:00">>}

IaqiMaps(dominant) ==
    {[k \in {"h"} |-> 40]}
        \cup {[k \in {dominant, "h"} |-> IF k = dominant THEN v ELSE 40] :
                 v \in CurrentValues}

UviForecast == <<[day |-> "06-1", avg |-> 9]>>

ForecastMaps(dominant) ==
    {[k \in {"uvi"} |-> UviForecast]}
        \cup {[k \in {dominant, "uvi"} |-> IF k = dominant THEN l ELSE UviForecast] :
                 l \in SeqsUpTo(DailyForecast, MaxForecast)}

Dominants == Identifiers \ {"h", "O3"}

Readings ==
    UNION {[dominentpol : {d}, iaqi : IaqiMaps(d), time_s : TimeStrings,
            forecast : ForecastMaps(d), city_name : {"Tehran"}] : d \in Dominants}

\* day.avg as f64, in steps of the pollutant's table
StepsPerUnit(p) == IF to_lowercase(p) \in {"pm25", "co"} THEN 10 ELSE 1

AsF64(avg, p) == avg * StepsPerUnit(p)

(***************************************************************************)
(* Result<String, Box<dyn Error>> of get_city_pollution_emoji.  A text is  *)
(* the city line followed by one entry (date, emoji, bar) per day.         *)
(***************************************************************************)
NoText == [city |-> "", entries |-> <<>>]

OkText(t) == [ok |-> TRUE, panic |-> FALSE, text |-> t, err |-> <<>>]

ErrText(e) == [ok |-> FALSE, panic |-> FALSE, text |-> NoText, err |-> e]

PanicText == [ok |-> FALSE, panic |-> TRUE, text |-> NoText, err |-> <<>>]

Entry(date, aq) ==
    LET r == air_quality_to_emoji(aq.level, aq.aqi)
    IN [date |-> date, emoji |-> r.emoji, bar |-> r.bar, panic |-> r.panic]

push_str(text, e) == [text EXCEPT !.entries = Append(@, e)]

\* mutant: the same-day entry passes the filter
is_forecast_or_today(day, current_date) ==
    str_gt(day.day, current_date) \/ day.day = current_date

\* the if inside the loop over forecast_list
is_forecast(day, current_date) == str_gt(day.day, current_date)

\* mutant: a failed day ends the loop and the text so far is returned
forecast_failed_partial(dominant, e, text) == OkText(text)

\* mutant: a failed day is reported with the context of the current value
forecast_failed_as_current(dominant, e, text) ==
    ErrText(<<"Failed to determine AQI from ", dominant>> \o e)

\* the ? on a failed conversion of a forecast day
forecast_failed(dominant, e, text) ==
    ErrText(<<"Forecast AQI calc failed for ", dominant>> \o e)

\* for day in forecast_list { ... }
RECURSIVE forecast_loop(_, _, _, _, _)
forecast_loop(list, i, dominant, current_date, text) ==
    IF i > Len(list) THEN OkText(text)
    ELSE IF is_forecast(list[i], current_date)
    THEN LET aq == calc_aqi_by_name(dominant, AsF64(list[i].avg, dominant)) IN
         IF ~aq.ok THEN forecast_failed(dominant, aq.err, text)
         ELSE LET e == Entry(list[i].day, aq) IN
              IF e.panic THEN PanicText
              ELSE forecast_loop(list, i + 1, dominant, current_date,
                                 push_str(text, e))
    ELSE forecast_loop(list, i + 1, dominant, current_date, text)

\* mutant: a reading without a forecast for the dominant pollutant is refused
forecast_part_required(data, current_date, text) ==
    IF data.dominentpol \in DOMAIN data.forecast
    THEN forecast_loop(data.forecast[data.dominentpol], 1, data.dominentpol,
                       current_date, text)
    ELSE ErrText(<<"Forecast for dominant pollutant not available: ",
                   data.dominentpol>>)

\* if let Some(forecast_list) = data.forecast.daily.get(dominant) { .. } Ok(text)
forecast_part(data, current_date, text) ==
    IF data.dominentpol \in DOMAIN data.forecast
    THEN forecast_loop(data.forecast[data.dominentpol], 1, data.dominentpol,
                       current_date, text)
    ELSE OkText(text)

\* mutant: a missing current value counts as 0
current_value_or_zero(data) ==
    IF data.dominentpol \in DOMAIN data.iaqi
    THEN [some |-> TRUE, v |-> data.iaqi[data.dominentpol]]
    ELSE [some |-> TRUE, v |-> 0]

\* data.iaqi.get(dominant): Option<f64>
current_value(data) ==
    IF data.dominentpol \in DOMAIN data.iaqi
    THEN [some |-> TRUE, v |-> data.iaqi[data.dominentpol]]
    ELSE [some |-> FALSE, v |-> 0]

\* the ? on a failed conversion of the current value
current_failed(dominant, e) ==
    ErrText(<<"Failed to determine AQI from ", dominant>> \o e)

\* the body of get_city_pollution_emoji after the fetch
derive_report(data) ==
    LET dominant == data.dominentpol
        val == current_value(data)
    IN
    IF ~val.some
    THEN ErrText(<<"Data for dominant pollutant not available: ", dominant>>)
    ELSE
    LET aqi_level == calc_aqi_by_name(dominant, val.v) IN
    IF ~aqi_level.ok
    THEN current_failed(dominant, aqi_level.err)
    ELSE IF data.time_s = <<>>
    THEN ErrText(<<"Failed to parse date">>)
    ELSE
    LET current_date == Head(data.time_s)
        first == Entry(current_date, aqi_level)
    IN  IF first.panic THEN PanicText
        ELSE forecast_part(data, current_date,
                           [city |-> data.city_name, entries |-> <<first>>])

(***************************************************************************)
(* Commands, messages and the result of get_city_pollution.                *)
(***************************************************************************)
Cities == {<<>>, <<" ">>, <<"t">>, <<" ", "t">>}

Commands ==
    [kind : {"Help", "Start"}, city : {<<>>}] \cup [kind : {"Wis"}, city : Cities]

NoCommand == [kind |-> "None", city |-> <<>>]

Message(kind, city, text) == [kind |-> kind, city |-> city, text |-> text]

NoData ==
    [dominentpol |-> "", iaqi |-> [k \in {"h"} |-> 0], time_s |-> <<>>,
     forecast |-> [k \in {"uvi"} |-> << >>], city_name |-> ""]

OkData(data) == [ok |-> TRUE, data |-> data, err |-> <<>>]

ErrData(e) == [ok |-> FALSE, data |-> NoData, err |-> e]

NotFetched == ErrData(<<"not fetched">>)

is_blank(city) == trim(city) = <<>>

(***************************************************************************)
(* The states the bot starts a handler in.                                 *)
(***************************************************************************)
HandlerIdle ==
    /\ pc = "idle"
    /\ cmd = NoCommand
    /\ fetched = NotFetched
    /\ fetches = 0
    /\ sent = <<>>
    /\ ret = "none"
    /\ log = <<>>

ConvertIdle ==
    /\ pollutant = ""
    /\ value = 0
    /\ converted = ErrAqi(<<"not called">>)

RenderIdle ==
    /\ level_in = "Good"
    /\ aqi_in = 0
    /\ rendered = [panic |-> FALSE, emoji |-> "", bar |-> <<>>]

Init ==
    /\ env_token \in BOOLEAN
    /\ HandlerIdle
    /\ ConvertIdle
    /\ RenderIdle

(***************************************************************************)
(* async fn answer(bot, msg, cmd)                                          *)
(***************************************************************************)
\* Command::repl hands a parsed command to answer
Dispatch ==
    /\ pc = "idle"
    /\ \E c \in Commands : cmd' = c
    /\ pc' = "answer"
    /\ UNCHANGED <<env_token, fetched, fetches, sent, ret, log>>

\* bot.send_message(..).await? as the last step of answer: the request is
\* issued once, and answer returns what the request returned
SendAndReturn(m) ==
    /\ sent' = Append(sent, m)
    /\ \E r \in {"Ok", "Err"} : ret' = r
    /\ pc' = "done"

AnswerHelp ==
    /\ pc = "answer"
    /\ cmd.kind \in {"Help", "Start"}
    /\ SendAndReturn(Message("descriptions", <<>>, NoText))
    /\ UNCHANGED <<env_token, cmd, fetched, fetches, log>>

AnswerUsage ==
    /\ pc = "answer"
    /\ cmd.kind = "Wis"
    /\ is_blank(cmd.city)
    /\ SendAndReturn(Message("usage", <<>>, NoText))
    /\ UNCHANGED <<env_token, cmd, fetched, fetches, log>>

\* get_city_pollution: std::env::var("AQI_TOKEN").expect(..)
TokenPanic ==
    /\ pc = "answer"
    /\ cmd.kind = "Wis"
    /\ ~is_blank(cmd.city)
    /\ ~env_token
    /\ pc' = "panicked"
    /\ UNCHANGED <<env_token, cmd, fetched, fetches, sent, ret, log>>

\* get_city_pollution: timeout(10 s, reqwest::get(url)) is started
StartFetch ==
    /\ pc = "answer"
    /\ cmd.kind = "Wis"
    /\ ~is_blank(cmd.city)
    /\ env_token
    /\ fetches' = fetches + 1
    /\ pc' = "fetching"
    /\ UNCHANGED <<env_token, cmd, fetched, sent, ret, log>>

\* mutant: the detailed error is sent to the chat
reply_with_error(city, result) ==
    IF result.ok
    THEN Message("report", <<>>, result.text)
    ELSE Message("error", result.err, NoText)

\* the match on the result of get_city_pollution_emoji, and the send
reply(city, result) ==
    IF result.ok
    THEN Message("report", <<>>, result.text)
    ELSE Message("failure", city, NoText)

\* the lines printed: the conversion of the current value by
\* get_city_pollution_emoji, the error by answer
println(f, result) ==
    IF result.ok THEN <<<<"City">>>>
    ELSE IF /\ f.ok
            /\ current_value(f.data).some
            /\ calc_aqi_by_name(f.data.dominentpol, current_value(f.data).v).ok
         THEN <<<<"City">>, result.err>>
         ELSE <<result.err>>

\* the rest of answer once get_city_pollution has returned f
Finish(f) ==
    /\ pc = "fetching"
    /\ fetched' = f
    /\ \E result \in {IF f.ok THEN derive_report(f.data) ELSE ErrText(f.err)} :
         IF result.panic
         THEN /\ pc' = "panicked"
              /\ UNCHANGED <<sent, ret, log>>
         ELSE /\ log' = log \o println(f, result)
              /\ SendAndReturn(reply(cmd.city, result))
    /\ UNCHANGED <<env_token, cmd, fetches>>

FetchOk ==
    /\ pc = "fetching"
    /\ \E data \in Readings : Finish(OkData(data))

FetchStatusError == Finish(ErrData(<<"API returned an error: ", "error">>))

FetchDecodeError == Finish(ErrData(<<"error decoding response body">>))

FetchReqwestError == Finish(ErrData(<<"error sending request">>))

FetchTimeout == Finish(ErrData(<<"Request timed out">>))

Next ==
    \/ Dispatch /\ UNCHANGED <<convertVars, renderVars>>
    \/ AnswerHelp /\ UNCHANGED <<convertVars, renderVars>>
    \/ AnswerUsage /\ UNCHANGED <<convertVars, renderVars>>
    \/ TokenPanic /\ UNCHANGED <<convertVars, renderVars>>
    \/ StartFetch /\ UNCHANGED <<convertVars, renderVars>>
    \/ FetchOk /\ UNCHANGED <<convertVars, renderVars>>
    \/ FetchStatusError /\ UNCHANGED <<convertVars, renderVars>>
    \/ FetchDecodeError /\ UNCHANGED <<convertVars, renderVars>>
    \/ FetchReqwestError /\ UNCHANGED <<convertVars, renderVars>>
    \/ FetchTimeout /\ UNCHANGED <<convertVars, renderVars>>

Spec == Init /\ [][Next]_vars

(***************************************************************************)
(* Direct calls of calc_aqi_by_name, over every concentration of every     *)
(* table and a few steps beyond both ends.                                 *)
(***************************************************************************)
TableOf(p) ==
    CASE to_lowercase(p) = "pm25" -> Pm25Table
      [] to_lowercase(p) = "pm10" -> Pm10Table
      [] to_lowercase(p) = "o3" -> Ozone8Table
      [] to_lowercase(p) = "no2" -> No2Table
      [] to_lowercase(p) = "so2" -> So2Table
      [] to_lowercase(p) = "co" -> CoTable
      [] OTHER -> Pm25Table

Concentrations(p) == (0 - Overshoot)..(TableMax(TableOf(p)) + Overshoot)

InitConvert ==
    /\ env_token = TRUE
    /\ HandlerIdle
    /\ RenderIdle
    /\ pollutant \in Identifiers
    /\ value \in Concentrations(pollutant)
    /\ converted = ErrAqi(<<"not called">>)

CallConvert ==
    /\ converted = ErrAqi(<<"not called">>)
    /\ converted' = calc_aqi_by_name(pollutant, value)
    /\ UNCHANGED <<pollutant, value, handlerVars, renderVars>>

NextConvert == CallConvert

SpecConvert == InitConvert /\ [][NextConvert]_vars

(***************************************************************************)
(* Direct calls of air_quality_to_emoji.                                   *)
(***************************************************************************)
InitRender ==
    /\ env_token = TRUE
    /\ HandlerIdle
    /\ ConvertIdle
    /\ level_in \in LevelSet
    /\ aqi_in \in 0..MaxAqi
    /\ rendered = [panic |-> FALSE, emoji |-> "", bar |-> <<>>]

CallRender ==
    /\ rendered.emoji = ""
    /\ rendered' = air_quality_to_emoji(level_in, aqi_in)
    /\ UNCHANGED <<level_in, aqi_in, handlerVars, convertVars>>

NextRender == CallRender

SpecRender == InitRender /\ [][NextRender]_vars

(***************************************************************************)
(* Vocabulary of the properties, stated on the reading that was fetched    *)
(* and on what the handler sent and printed.                               *)
(***************************************************************************)
\* a sorts strictly after b, byte by byte: at the first difference a has the
\* larger byte, or b is a proper prefix of a
LexGreater(a, b) ==
    \E k \in 0..Min(Len(a), Len(b)) :
        /\ \A j \in 1..k : a[j] = b[j]
        /\ \/ k = Len(b) /\ k < Len(a)
           \/ k < Len(a) /\ k < Len(b) /\ a[k + 1] > b[k + 1]

\* the handler has replied to a /wis command for which a reading arrived
DerivedFrom(data) ==
    /\ pc = "done"
    /\ cmd.kind = "Wis"
    /\ fetched.ok
    /\ fetched.data = data

InDomain(p, c) == 0 <= c /\ c <= TableMax(TableOf(p))

Converts(p, c) == to_lowercase(p) \in Supported /\ InDomain(p, c)

ForecastOf(data) ==
    IF data.dominentpol \in DOMAIN data.forecast
    THEN data.forecast[data.dominentpol]
    ELSE <<>>

HasDate(data) == Len(data.time_s) > 0

IsLater(data, d) == LexGreater(Chars(d.day), Chars(data.time_s[1]))

\* the forecast entries after the current date, in the order of the series
Later(data) ==
    LET Keep(d) == IsLater(data, d) IN SelectSeq(ForecastOf(data), Keep)

CurrentConverts(data) ==
    /\ data.dominentpol \in DOMAIN data.iaqi
    /\ Converts(data.dominentpol, data.iaqi[data.dominentpol])

ForecastConverts(data, d) ==
    Converts(data.dominentpol, d.avg * StepsPerUnit(data.dominentpol))

SentReport == Len(sent) = 1 /\ sent[1].kind = "report"

SentFailure == sent = <<Message("failure", cmd.city, NoText)>>

LastLogged == log[Len(log)]

Rendering(data, day, c) ==
    Entry(day, calc_aqi_by_name(data.dominentpol, c))

(***************************************************************************)
(* C1: when the derivation succeeds, the entries after the first are       *)
(* exactly the forecast entries of the dominant pollutant whose date label *)
(* is lexicographically strictly greater than the current date label, in   *)
(* the order of the series; entries on or before the current date          *)
(* (the same-day entry included) are left out.                             *)
(***************************************************************************)
C1_ForecastFilter ==
    \A data \in {fetched.data} :
        (DerivedFrom(data) /\ SentReport) =>
            LET later == Later(data)
                entries == sent[1].text.entries
            IN  /\ Len(entries) = 1 + Len(later)
                /\ \A i \in 1..Len(later) :
                       entries[i + 1] =
                           Rendering(data, later[i].day,
                                     later[i].avg * StepsPerUnit(data.dominentpol))

\* a report of three entries from a series of three: the same-day entry is
\* skipped and the two later ones are kept in the order of the series, which
\* is not the sorted one
C1_Witness ==
    /\ DerivedFrom(fetched.data)
    /\ SentReport
    /\ Len(sent[1].text.entries) = 3
    /\ Len(ForecastOf(fetched.data)) = 3
    /\ \E i \in 1..3 : ForecastOf(fetched.data)[i].day = fetched.data.time_s[1]
    /\ sent[1].text.entries[2].date = "06-1"
    /\ sent[1].text.entries[3].date = "06-01"

(***************************************************************************)
(* C2 (as claimed): when the forecast has no key for the dominant          *)
(* pollutant and the current value converts, the derivation succeeds and   *)
(* returns exactly one entry, the current-day entry.                       *)
(***************************************************************************)
C2_Original ==
    \A data \in {fetched.data} :
        (/\ DerivedFrom(data)
         /\ data.dominentpol \notin DOMAIN data.forecast
         /\ CurrentConverts(data))
        => /\ SentReport
           /\ Len(sent[1].text.entries) = 1

(***************************************************************************)
(* C2 (amended): when the forecast has no key for the dominant pollutant,  *)
(* the current value converts and time.s holds a date token, the           *)
(* derivation succeeds and returns exactly one entry, the current-day      *)
(* entry labelled with that token; the absent forecast is not an error.    *)
(* When time.s is blank the derivation fails with "Failed to parse date".  *)
(***************************************************************************)
C2_NoForecastKey ==
    \A data \in {fetched.data} :
        (/\ DerivedFrom(data)
         /\ data.dominentpol \notin DOMAIN data.forecast
         /\ CurrentConverts(data))
        => IF HasDate(data)
           THEN /\ SentReport
                /\ sent[1].text.entries =
                       <<Rendering(data, data.time_s[1],
                                   data.iaqi[data.dominentpol])>>
           ELSE /\ SentFailure
                /\ LastLogged = <<"Failed to parse date">>

C2_Witness ==
    /\ DerivedFrom(fetched.data)
    /\ fetched.data.dominentpol \notin DOMAIN fetched.data.forecast
    /\ CurrentConverts(fetched.data)
    /\ SentReport
    /\ Len(sent[1].text.entries) = 1
    /\ sent[1].text.entries[1].date = "06-01"

(***************************************************************************)
(* C3: when the current values have no entry for the dominant pollutant,   *)
(* the derivation fails with the missing-current-value error and produces  *)
(* no report, whatever the forecast holds and whether or not the           *)
(* identifier is a supported one.                                          *)
(***************************************************************************)
C3_MissingCurrentValue ==
    \A data \in {fetched.data} :
        (DerivedFrom(data) /\ data.dominentpol \notin DOMAIN data.iaqi)
        => /\ SentFailure
           /\ LastLogged = <<"Data for dominant pollutant not available: ",
                             data.dominentpol>>

\* the case of an unsupported identifier with a forecast under its key
C3_Witness ==
    /\ DerivedFrom(fetched.data)
    /\ fetched.data.dominentpol = "xx"
    /\ "xx" \notin DOMAIN fetched.data.iaqi
    /\ Len(ForecastOf(fetched.data)) > 0
    /\ SentFailure

(***************************************************************************)
(* C4: if the conversion of the current value, or of any forecast entry    *)
(* that passes the date filter, fails, the derivation returns an error and *)
(* no report: the entries converted before the failing one are neither     *)
(* returned nor rendered.                                                  *)
(***************************************************************************)
C4_NoPartialReport ==
    \A data \in {fetched.data} :
        (/\ DerivedFrom(data)
         /\ data.dominentpol \in DOMAIN data.iaqi
         /\ \/ ~CurrentConverts(data)
            \/ /\ HasDate(data)
               /\ \E i \in 1..Len(ForecastOf(data)) :
                      /\ IsLater(data, ForecastOf(data)[i])
                      /\ ~ForecastConverts(data, ForecastOf(data)[i]))
        => /\ SentFailure
           /\ sent[1].text.entries = <<>>

\* the current value and a first later forecast day convert, a second later
\* day does not
C4_Witness ==
    /\ DerivedFrom(fetched.data)
    /\ CurrentConverts(fetched.data)
    /\ HasDate(fetched.data)
    /\ \E i, j \in 1..Len(ForecastOf(fetched.data)) :
          /\ i < j
          /\ IsLater(fetched.data, ForecastOf(fetched.data)[i])
          /\ ForecastConverts(fetched.data, ForecastOf(fetched.data)[i])
          /\ IsLater(fetched.data, ForecastOf(fetched.data)[j])
          /\ ~ForecastConverts(fetched.data, ForecastOf(fetched.data)[j])
    /\ SentFailure

(***************************************************************************)
(* Vocabulary of the properties of the direct calls.                       *)
(***************************************************************************)
ConvertCalled == converted # ErrAqi(<<"not called">>)

RenderCalled == rendered.emoji # ""

TierLow == <<0, 51, 101, 151, 201, 301>>

TierHigh == <<50, 100, 150, 200, 300, 500>>

InTier(aqi, i) == TierLow[i] <= aqi /\ aqi <= TierHigh[i]

(***************************************************************************)
(* C5: calc_aqi_by_name called with an identifier that is none of the six  *)
(* supported kinds fails with the unknown-pollutant error for every        *)
(* concentration and never returns an AirQuality.                          *)
(***************************************************************************)
C5_UnknownPollutant ==
    (ConvertCalled /\ to_lowercase(pollutant) \notin Supported)
    => /\ ~converted.ok
       /\ converted.err =
              <<"Unsupported or unknown pollutant: ", to_lowercase(pollutant)>>

\* "xx" with a concentration every table accepts
C5_Witness ==
    /\ ConvertCalled
    /\ pollutant = "xx"
    /\ value = 30
    /\ ~converted.ok

(***************************************************************************)
(* C7: for every supported pollutant and every in-domain concentration,    *)
(* the level of the returned AirQuality is the one tier whose AQI          *)
(* sub-range (0-50, 51-100, 101-150, 151-200, 201-300, 301-500) contains   *)
(* the returned aqi.                                                       *)
(***************************************************************************)
C7_LevelMatchesAqi ==
    (ConvertCalled /\ converted.ok)
    => \E i \in 1..6 :
           /\ InTier(converted.aqi, i)
           /\ converted.level = Levels[i]
           /\ \A j \in 1..6 : InTier(converted.aqi, j) => j = i

\* PM2.5 at 35.4 is AQI 100, the upper end of Moderate
C7_Witness ==
    /\ ConvertCalled
    /\ pollutant = "pm25"
    /\ value = 354
    /\ converted = OkAqi(100, "Moderate")

(***************************************************************************)
(* C8: for every supported pollutant, a negative concentration, or one     *)
(* above the concentration_high of the pollutant's highest breakpoint row, *)
(* fails with the out-of-domain error instead of returning an AirQuality.  *)
(***************************************************************************)
C8_OutOfDomain ==
    (/\ ConvertCalled
     /\ to_lowercase(pollutant) \in Supported
     /\ (value < 0 \/ value > TableMax(TableOf(pollutant))))
    => /\ ~converted.ok
       /\ converted.err = <<"OutOfDomain">>

\* ozone one step above its highest row
C8_Witness ==
    /\ ConvertCalled
    /\ pollutant = "o3"
    /\ value = 201
    /\ ~converted.ok

(***************************************************************************)
(* C6 (as claimed): when a conversion error makes the derivation fail, the *)
(* error carries context that identifies which value triggered it: the     *)
(* current value, or the particular forecast day whose conversion failed.  *)
(***************************************************************************)
FirstFailing(data) ==
    LET list == ForecastOf(data)
        Fails(i) == IsLater(data, list[i]) /\ ~ForecastConverts(data, list[i])
    IN  IF /\ CurrentConverts(data)
           /\ HasDate(data)
           /\ \E i \in 1..Len(list) : Fails(i)
        THEN CHOOSE i \in 1..Len(list) :
                 Fails(i) /\ \A j \in 1..(i - 1) : ~Fails(j)
        ELSE 0

CurrentFails(data) ==
    data.dominentpol \in DOMAIN data.iaqi /\ ~CurrentConverts(data)

C6_Original ==
    \A data \in {fetched.data} :
        DerivedFrom(data) =>
            /\ CurrentFails(data) =>
                   LastLogged[1] = "Failed to determine AQI from "
            /\ FirstFailing(data) > 0 =>
                   /\ LastLogged[1] = "Forecast AQI calc failed for "
                   /\ \E k \in 1..Len(LastLogged) :
                          LastLogged[k] = ForecastOf(data)[FirstFailing(data)].day

(***************************************************************************)
(* C6 (amended): when a conversion error makes the derivation fail, the    *)
(* error is the converter's error behind a context that tells whether the  *)
(* current value or a forecast entry triggered it and that names the       *)
(* dominant pollutant; the context of a forecast failure does not name the *)
(* day that failed.                                                        *)
(***************************************************************************)
C6_ErrorContext ==
    \A data \in {fetched.data} :
        DerivedFrom(data) =>
            /\ CurrentFails(data) =>
                   LastLogged =
                       <<"Failed to determine AQI from ", data.dominentpol>>
                       \o calc_aqi_by_name(data.dominentpol,
                                           data.iaqi[data.dominentpol]).err
            /\ FirstFailing(data) > 0 =>
                   /\ LastLogged =
                          <<"Forecast AQI calc failed for ", data.dominentpol>>
                          \o calc_aqi_by_name(
                                 data.dominentpol,
                                 ForecastOf(data)[FirstFailing(data)].avg
                                     * StepsPerUnit(data.dominentpol)).err
                   /\ \A k \in 1..Len(LastLogged) : LastLogged[k] \notin DayLabels

\* the second of two later forecast days fails
C6_Witness ==
    /\ DerivedFrom(fetched.data)
    /\ FirstFailing(fetched.data) = 3
    /\ IsLater(fetched.data, ForecastOf(fetched.data)[2])
    /\ LastLogged[1] = "Forecast AQI calc failed for "

(***************************************************************************)
(* C9 (as claimed): for every Wis command with a non-blank city the        *)
(* handler sends exactly one message: the rendered report when fetch and   *)
(* derivation both succeed, otherwise the generic failure message for the  *)
(* city; a blank city gets only the usage message and no fetch is started. *)
(***************************************************************************)
Ended == pc \in {"done", "panicked"}

DerivationSucceeds(data) ==
    /\ CurrentConverts(data)
    /\ HasDate(data)
    /\ \A i \in 1..Len(ForecastOf(data)) :
           IsLater(data, ForecastOf(data)[i])
               => ForecastConverts(data, ForecastOf(data)[i])

OneReply ==
    IF is_blank(cmd.city)
    THEN /\ sent = <<Message("usage", <<>>, NoText)>>
         /\ fetches = 0
    ELSE /\ fetches = 1
         /\ Len(sent) = 1
         /\ IF fetched.ok /\ DerivationSucceeds(fetched.data)
            THEN /\ sent[1].kind = "report"
                 /\ sent[1].text.city = fetched.data.city_name
                 /\ Len(sent[1].text.entries) = 1 + Len(Later(fetched.data))
            ELSE SentFailure

C9_Original == (Ended /\ cmd.kind = "Wis") => OneReply

(***************************************************************************)
(* C9 (amended): for every Wis command with a non-blank city that is       *)
(* handled while AQI_TOKEN is set, the handler sends exactly one message:  *)
(* the rendered report when fetch and derivation both succeed, otherwise   *)
(* the generic failure message for the city; a blank city gets only the    *)
(* usage message and no fetch is started.  When AQI_TOKEN is not set, a    *)
(* Wis command with a non-blank city panics in get_city_pollution before   *)
(* any fetch is started and no message is sent.                            *)
(***************************************************************************)
C9_OneReply ==
    /\ (pc = "done" /\ cmd.kind = "Wis") => OneReply
    /\ pc = "panicked" =>
           /\ ~env_token
           /\ cmd.kind = "Wis"
           /\ ~is_blank(cmd.city)
           /\ sent = <<>>
           /\ fetches = 0
    /\ (pc = "fetching" \/ fetches > 0) =>
           (env_token /\ cmd.kind = "Wis" /\ ~is_blank(cmd.city))
    /\ Len(sent) <= 1

\* a fetch that timed out, answered with the failure message for the city
C9_Witness ==
    /\ pc = "done"
    /\ cmd = [kind |-> "Wis", city |-> <<" ", "t">>]
    /\ fetched = ErrData(<<"Request timed out">>)
    /\ sent = <<Message("failure", <<" ", "t">>, NoText)>>
    /\ fetches = 1

(***************************************************************************)
(* C10: for every aqi the progress bar has exactly 10 cells, of which      *)
(* min(10, ceil(min(aqi, 500) / 25)) are filled and the rest empty; the    *)
(* filled count is non-decreasing in aqi and the subtraction that gives    *)
(* the empty count never underflows.                                       *)
(***************************************************************************)
Filled(bar) == Cardinality({i \in 1..Len(bar) : bar[i] = "full"})

Ceil25(m) == CHOOSE k \in 0..(m + 1) : 25 * k >= m /\ 25 * (k - 1) < m

C10_ProgressBar ==
    RenderCalled =>
        LET n == Min(10, Ceil25(Min(aqi_in, 500))) IN
        /\ ~rendered.panic
        /\ Len(rendered.bar) = 10
        /\ \A i \in 1..10 : rendered.bar[i] = IF i <= n THEN "full" ELSE "empty"
        /\ Filled(rendered.bar) = n
        /\ aqi_in > 0 =>
               Filled(air_quality_to_emoji(level_in, aqi_in - 1).bar) <= n

\* an aqi above 500: every cell is filled and none is left to subtract
C10_Witness ==
    /\ RenderCalled
    /\ aqi_in = 501
    /\ Filled(rendered.bar) = 10
    /\ Len(rendered.bar) = 10

====
